---- MODULE Spec2Model ----
(***************************************************************************)
(* CryptoAnalyzer (scripts/CryptoAnalyzer.py): the pair-selecting          *)
(* decorator get_coin_currency_pair and the four operations it wraps,      *)
(* get_spikes, get_moving_average, get_volatility, get_monthly_analysis.   *)
(*                                                                         *)
(* A DataFrame is a sequence of rows; a row is a record with the index     *)
(* label ("index") and one field per column.  self.df carries the default  *)
(* RangeIndex, so a row's label is its position, counted from 0.           *)
(* Frame objects are kept apart by name in a record [self, df]: "self" is  *)
(* the object self.df refers to, "df" the object bound to the parameter df *)
(* of the wrapped body, so that an in-place assignment changes exactly the *)
(* object it is written to.                                                *)
(***************************************************************************)
EXTENDS Integers, Sequences, FiniteSets, TLC

VARIABLES df, given, call, raised, ret, passed, sorted, steps

vars == <<df, given, call, raised, ret, passed, sorted, steps>>

----------------------------------------------------------------------------
(* Bounds of the model *)

MaxRows == 3
MaxRank == 2
MaxSpan == 3
MaxLag == 2

Dates == {20241231, 20251110, 20251125, 20251201}
Values == {0, 3}

\* kwargs.get(...) of a keyword that was not passed: None
Absent == "<None>"

TargetCoin == "ethereum"
TargetCurrency == "usd"

\* The rows the datasets are drawn from: every date and value for the target
\* pair, one row for each of two other pairs.  volume and capitalization are
\* set from the drawn value so that the three columns differ: price takes the
\* values 0 and 3, volume 1 and 3, capitalization 3 and 0.
ValueRow(c, u, d, v) ==
  [coin_name |-> c, currency |-> u, date_key |-> d,
   price |-> v, volume |-> (IF v = 0 THEN 1 ELSE v), capitalization |-> 3 - v]

RowValues ==
  {ValueRow(TargetCoin, TargetCurrency, d, v) : d \in Dates, v \in Values}
    \cup {ValueRow("hh", "usd", 20251110, 3), ValueRow("ethereum", "eur", 20251110, 0)}

WithIndex(rows) ==
  [i \in 1..Len(rows) |->
     [index |-> i - 1, coin_name |-> rows[i].coin_name, currency |-> rows[i].currency,
      date_key |-> rows[i].date_key, price |-> rows[i].price,
      volume |-> rows[i].volume, capitalization |-> rows[i].capitalization]]

\* The frames handed to CryptoAnalyzer(df_data): up to MaxRows rows, at most
\* one per (coin_name, currency, date_key) as the normalised data has them
Datasets ==
  UNION {{WithIndex(s) :
            s \in {t \in [1..n -> RowValues] :
                     \A i \in 1..n : \A j \in 1..n :
                       (/\ i # j
                        /\ t[i].coin_name = t[j].coin_name
                        /\ t[i].currency = t[j].currency) => t[i].date_key # t[j].date_key}} :
           n \in 0..MaxRows}

----------------------------------------------------------------------------
(* pandas and Python primitives *)

\* (mutant) only a missing keyword counts, an empty string passes
Falsy_noneOnly(x) == x = Absent

\* Python truthiness of a str-or-None value: `not x`
Falsy(x) == x = Absent \/ x = ""

\* frame[mask]: the rows whose mask entry is True, in order, as a new object
RECURSIVE BoolIndex(_, _)
BoolIndex(frame, mask) ==
  IF frame = <<>> THEN <<>>
  ELSE (IF Head(mask) THEN <<Head(frame)>> ELSE <<>>)
         \o BoolIndex(Tail(frame), Tail(mask))

Perms(n) == {p \in [1..n -> 1..n] : \A i, j \in 1..n : i # j => p[i] # p[j]}

\* frame.sort_values(by=column, ascending=asc): kind defaults to "quicksort",
\* which is not stable, so rows with equal keys may come out in any order.
\* The set of frames the call can return.
sort_values(frame, column, asc) ==
  LET n == Len(frame)
      InOrder(a, b) == IF asc THEN a[column] <= b[column] ELSE a[column] >= b[column]
  IN {[i \in 1..n |-> frame[p[i]]] :
        p \in {q \in Perms(n) : \A i \in 1..n : \A j \in 1..n :
                                   i < j => InOrder(frame[q[i]], frame[q[j]])}}

\* frame[:k] for a Python int k: a negative k counts from the end
SliceTo(frame, k) ==
  LET n == Len(frame)
      stop == IF k >= 0 THEN (IF k < n THEN k ELSE n)
              ELSE (IF n + k > 0 THEN n + k ELSE 0)
  IN SubSeq(frame, 1, stop)

----------------------------------------------------------------------------
(* get_coin_currency_pair.wrapper *)

\* (mutant) the mask compares coin_name alone
PairMask_coinOnly(frame, coin_name, currency) ==
  [i \in 1..Len(frame) |-> frame[i].coin_name = coin_name]

\* mask = (df["coin_name"] == coin_name) & (df["currency"] == currency)
PairMask(frame, coin_name, currency) ==
  [i \in 1..Len(frame) |->
     frame[i].coin_name = coin_name /\ frame[i].currency = currency]

\* The decorator up to the call of the wrapped function: the selector check,
\* then copy and filter.  steps lists what ran.
wrapper(selfdf, kwargs) ==
  IF Falsy(kwargs.coin_name) \/ Falsy(kwargs.currency)
  THEN [raised |-> "ValueError", steps |-> <<"check">>,
        frames |-> [self |-> selfdf, df |-> <<>>]]
  ELSE LET copy == selfdf
           filtered_df == BoolIndex(copy, PairMask(copy, kwargs.coin_name, kwargs.currency))
       IN [raised |-> "none", steps |-> <<"check", "copy", "filter", "body">>,
           frames |-> [self |-> selfdf, df |-> filtered_df]]

----------------------------------------------------------------------------
(* CryptoAnalyzer.get_spikes *)

\* (mutant) the date window leaves out its last day
get_spikes_exclusiveEnd(frames, kwargs) ==
  LET d == frames.df
      date_mask == [i \in 1..Len(d) |->
                      d[i].date_key >= kwargs.start_date_key
                        /\ d[i].date_key < kwargs.end_date_key]
      windowed == BoolIndex(d, date_mask)
  IN {[raised |-> "none", frames |-> frames, sorted |-> s,
       ret |-> SliceTo(s, kwargs.up_to_rank)] :
        s \in sort_values(windowed, kwargs.column, kwargs.order)}

\* The body: the outcomes (one per order the sort may leave ties in)
get_spikes(frames, kwargs) ==
  LET d == frames.df
      date_mask == [i \in 1..Len(d) |->
                      d[i].date_key >= kwargs.start_date_key
                        /\ d[i].date_key <= kwargs.end_date_key]
      windowed == BoolIndex(d, date_mask)
  IN {[raised |-> "none", frames |-> frames, sorted |-> s,
       ret |-> SliceTo(s, kwargs.up_to_rank)] :
        s \in sort_values(windowed, kwargs.column, kwargs.order)}


----------------------------------------------------------------------------
(* Numbers: a float that came out of a division is kept exact.  A cell of   *)
(* a computed column is [kind, num, den]: kind "num" is num/den (den > 0),  *)
(* "nan" is NaN, "inf" and "-inf" the infinities of float division by 0.    *)

Num(n, d) == [kind |-> "num", num |-> n, den |-> d]
NaN == [kind |-> "nan", num |-> 0, den |-> 1]
Inf == [kind |-> "inf", num |-> 0, den |-> 1]
NegInf == [kind |-> "-inf", num |-> 0, den |-> 1]

IsNa(x) == x.kind = "nan"

\* numeric equality of two cells
SameNumber(x, y) ==
  /\ x.kind = y.kind
  /\ x.kind = "num" => x.num * y.den = y.num * x.den

\* float division a / b of two integers
FloatDiv(a, b) ==
  IF b # 0 THEN (IF b > 0 THEN Num(a, b) ELSE Num(-a, -b))
  ELSE IF a > 0 THEN Inf ELSE IF a < 0 THEN NegInf ELSE NaN

\* round(x, 2): to the nearest hundredth, halves to the even one
Round2(x) ==
  IF x.kind # "num" THEN x
  ELSE LET n == x.num * 100
           q == n \div x.den
           r == n - q * x.den
           h == IF 2 * r < x.den THEN q
                ELSE IF 2 * r > x.den THEN q + 1
                ELSE IF q % 2 = 0 THEN q ELSE q + 1
       IN Num(h, 100)

RECURSIVE SumOf(_, _, _, _)
\* sum of column over positions lo..hi (1-based, inclusive) of frame
SumOf(frame, column, lo, hi) ==
  IF lo > hi THEN 0 ELSE frame[lo][column] + SumOf(frame, column, lo + 1, hi)

----------------------------------------------------------------------------
(* CryptoAnalyzer.get_moving_average *)

\* (mutant) the window is centred half a span to the right
CenterOffset_half(w) == w \div 2

\* Rolling(window=w, center=True): how far the window's right edge lies past
\* the row it is labelled with (pandas' FixedWindowIndexer)
CenterOffset(w) == (w - 1) \div 2

Clip(x, lo, hi) == IF x < lo THEN lo ELSE IF x > hi THEN hi ELSE x

\* (mutant) a window cut off by an edge still yields a mean (min_periods=1)
RollingMean_anyObs(frame, column, w, i) ==
  LET n == Len(frame)
      end == Clip(i + 1 + (w - 1) \div 2, 0, n)
      start == Clip(i + 1 + (w - 1) \div 2 - w, 0, n)
      nobs == end - start
  IN IF nobs <= 0 THEN NaN
     ELSE [kind |-> "num", num |-> SumOf(frame, column, start + 1, end), den |-> nobs]

\* .rolling(window=w, center=True)[column].mean() at 0-based position i of a
\* frame of n rows; min_periods defaults to w
RollingMean(frame, column, w, i) ==
  LET n == Len(frame)
      end == Clip(i + 1 + CenterOffset(w), 0, n)
      start == Clip(i + 1 + CenterOffset(w) - w, 0, n)
      nobs == end - start
  IN IF nobs < w \/ nobs <= 0 THEN NaN
     ELSE Num(SumOf(frame, column, start + 1, end), nobs)

\* (mutant) the column is assigned into self.df
MovingAverageTarget_self == "self"

\* The object the statement `df[column_name] = ...` assigns into
MovingAverageTarget == "df"

\* frame[name] = series, aligned on the index label; a label the series
\* lacks gets NaN
SetColumn(frame, name, labels, cells) ==
  [i \in 1..Len(frame) |->
     LET at == {j \in 1..Len(labels) : labels[j] = frame[i].index}
     IN (name :> (IF at = {} THEN NaN ELSE cells[CHOOSE j \in at : TRUE])) @@ frame[i]]

\* frame.dropna() on a frame whose only computed column is name
DropNa(frame, name) ==
  BoolIndex(frame, [i \in 1..Len(frame) |-> ~IsNa(frame[i][name])])

get_moving_average(frames, kwargs) ==
  LET column_name == "moving_avg_" \o kwargs.column
      w == kwargs.total_day_span
      d == frames.df
  IN IF w < 0
     THEN {[raised |-> "ValueError", frames |-> frames, sorted |-> <<>>, ret |-> <<>>]}
     ELSE {LET labels == [i \in 1..Len(s) |-> s[i].index]
               cells == [i \in 1..Len(s) |-> RollingMean(s, kwargs.column, w, i - 1)]
               target == frames[MovingAverageTarget]
               assigned == SetColumn(target, column_name, labels, cells)
               after == [frames EXCEPT ![MovingAverageTarget] = assigned]
           IN [raised |-> "none", frames |-> after, sorted |-> s,
               ret |-> DropNa(SetColumn(d, column_name, labels, cells), column_name)] :
             s \in sort_values(d, "date_key", TRUE)}

----------------------------------------------------------------------------
(* CryptoAnalyzer.get_volatility *)

\* series.shift(periods=lag) at 0-based position i: the value lag rows back
Shift(frame, column, lag, i) ==
  IF i - lag >= 0 /\ i - lag < Len(frame)
  THEN Num(frame[i - lag + 1][column], 1) ELSE NaN

\* round((x[column] - previous) / previous * 100, 2)
Growth(current, previous) ==
  IF IsNa(previous) THEN NaN
  ELSE Round2(LET q == FloatDiv(current - previous.num, previous.num)
              IN IF q.kind = "num" THEN Num(q.num * 100, q.den) ELSE q)

\* OrderEnum.ascending.value (enums/OrderEnum.py): the flag for an ascending sort
OrderEnum_ascending_value == TRUE

get_volatility(frames, kwargs) ==
  LET volatility_column == kwargs.column \o "_growth"
      d == frames.df
  IN {LET grown == [i \in 1..Len(s) |->
                      (volatility_column :>
                         Growth(s[i][kwargs.column],
                                Shift(s, kwargs.column, kwargs.lag_to_row, i - 1))) @@ s[i]]
      IN [raised |-> "none", frames |-> frames, sorted |-> s,
          ret |-> DropNa(grown, volatility_column)] :
        s \in sort_values(d, "date_key", OrderEnum_ascending_value)}

----------------------------------------------------------------------------
(* CryptoAnalyzer.get_monthly_analysis *)

\* A str is the sequence of its characters' codes
Minus == <<45>>

RECURSIVE Str(_)
\* str(n) of an int n >= 0: its decimal digits
Str(n) == IF n < 10 THEN <<48 + n>> ELSE Str(n \div 10) \o <<48 + (n % 10)>>

\* s[a:b] of a str (Python slice, 0-based, b exclusive, clamped)
StrSlice(s, a, b) == SubSeq(s, a + 1, IF b < Len(s) THEN b ELSE Len(s))

RECURSIVE StrLess(_, _)
\* s < t for two str: lexicographic
StrLess(s, t) ==
  IF t = <<>> THEN FALSE
  ELSE IF s = <<>> THEN TRUE
  ELSE IF Head(s) # Head(t) THEN Head(s) < Head(t)
  ELSE StrLess(Tail(s), Tail(t))

\* x["date_key"].astype(str).str[0:4] + "-" + x["date_key"].astype(str).str[4:6]
YearMonthKey(date_str) == StrSlice(date_str, 0, 4) \o Minus \o StrSlice(date_str, 4, 6)

\* The object the statement `df["date_key"] = ...` assigns into
MonthlyTarget == "df"

\* frame["date_key"] = frame["date_key"].astype(str)
DateKeyAsStr(frame) ==
  [i \in 1..Len(frame) |-> [frame[i] EXCEPT !.date_key = Str(@)]]

RECURSIVE SortKeys(_)
\* the group keys in ascending order (groupby sorts its keys)
SortKeys(keys) ==
  IF keys = {} THEN <<>>
  ELSE LET least == CHOOSE k \in keys : \A o \in keys : o = k \/ StrLess(k, o)
       IN <<least>> \o SortKeys(keys \ {least})

get_monthly_analysis(frames, kwargs) ==
  LET converted == DateKeyAsStr(frames[MonthlyTarget])
      after == [frames EXCEPT ![MonthlyTarget] = converted]
      d == DateKeyAsStr(frames.df)
      key(i) == YearMonthKey(d[i].date_key)
      keys == SortKeys({key(i) : i \in 1..Len(d)})
      group(k) == BoolIndex(d, [i \in 1..Len(d) |-> key(i) = k])
      mean(g, column) == Num(SumOf(g, column, 1, Len(g)), Len(g))
  IN {[raised |-> "none", frames |-> after, sorted |-> <<>>,
       ret |-> [j \in 1..Len(keys) |->
                  LET g == group(keys[j])
                  IN [index |-> j - 1, year_month_key |-> keys[j],
                      avg_price |-> mean(g, "price"),
                      avg_volume |-> mean(g, "volume"),
                      avg_capitalization |-> mean(g, "capitalization"),
                      coin_name |-> g[1].coin_name, currency |-> g[1].currency,
                      date_key |-> g[1].date_key]]]}

----------------------------------------------------------------------------
(* Calls.  A call's outcome stays in the state until the caller takes it  *)
(* (TakeResult); the analyzer is then ready for the next call.              *)

\* The selector arguments tried: the target pair, pairs that match other or
\* no rows, and missing or empty selectors
Selectors ==
  {<<TargetCoin, TargetCurrency>>, <<"hh", "usd">>, <<"ethereum", "eur">>, <<"hh", "eur">>,
   <<Absent, TargetCurrency>>, <<TargetCoin, Absent>>, <<"", TargetCurrency>>,
   <<TargetCoin, "">>, <<Absent, Absent>>}

IsTarget(sel) == sel = <<TargetCoin, TargetCurrency>>

\* The date windows tried, <<start_date_key, end_date_key>>: all dates, the
\* two middle dates, and one whose start lies after its end
Windows == {<<20241231, 20251201>>, <<20251110, 20251125>>, <<20251125, 20251110>>}

Ready == call.op = "new"

Finish(kwargs, w, out) ==
  /\ call' = kwargs
  /\ steps' = w.steps
  /\ passed' = w.frames.df
  /\ raised' = out.raised
  /\ ret' = out.ret
  /\ sorted' = out.sorted
  /\ df' = out.frames.self
  /\ UNCHANGED given

Refuse(kwargs, w) ==
  /\ call' = kwargs
  /\ steps' = w.steps
  /\ passed' = <<>>
  /\ raised' = w.raised
  /\ ret' = <<>>
  /\ sorted' = <<>>
  /\ df' = w.frames.self
  /\ UNCHANGED given

Call_get_spikes ==
  /\ Ready
  /\ \E sel \in Selectors, k \in -1..MaxRank,
        column \in {"price", "volume", "capitalization"},
        order \in BOOLEAN, win \in Windows :
       /\ IsTarget(sel)
            \/ (k = MaxRank /\ column = "price" /\ order /\ win[1] < win[2])
       /\ LET kwargs == [op |-> "get_spikes", coin_name |-> sel[1], currency |-> sel[2],
                         up_to_rank |-> k, column |-> column, order |-> order,
                         start_date_key |-> win[1], end_date_key |-> win[2]]
              w == wrapper(df, kwargs)
          IN IF w.raised # "none" THEN Refuse(kwargs, w)
             ELSE \E out \in get_spikes(w.frames, kwargs) : Finish(kwargs, w, out)

Call_get_moving_average ==
  /\ Ready
  /\ \E sel \in Selectors, column \in {"price", "volume"}, span \in -1..MaxSpan :
       /\ IsTarget(sel) \/ (column = "price" /\ span = MaxSpan)
       /\ LET kwargs == [op |-> "get_moving_average", coin_name |-> sel[1],
                         currency |-> sel[2], column |-> column, total_day_span |-> span]
              w == wrapper(df, kwargs)
          IN IF w.raised # "none" THEN Refuse(kwargs, w)
             ELSE \E out \in get_moving_average(w.frames, kwargs) : Finish(kwargs, w, out)

Call_get_volatility ==
  /\ Ready
  /\ \E sel \in Selectors, column \in {"price", "volume"}, lag \in -1..MaxLag :
       /\ IsTarget(sel) \/ (column = "price" /\ lag = MaxLag)
       /\ LET kwargs == [op |-> "get_volatility", coin_name |-> sel[1],
                         currency |-> sel[2], column |-> column, lag_to_row |-> lag]
              w == wrapper(df, kwargs)
          IN IF w.raised # "none" THEN Refuse(kwargs, w)
             ELSE \E out \in get_volatility(w.frames, kwargs) : Finish(kwargs, w, out)

Call_get_monthly_analysis ==
  /\ Ready
  /\ \E sel \in Selectors :
       LET kwargs == [op |-> "get_monthly_analysis", coin_name |-> sel[1],
                      currency |-> sel[2]]
           w == wrapper(df, kwargs)
       IN IF w.raised # "none" THEN Refuse(kwargs, w)
          ELSE \E out \in get_monthly_analysis(w.frames, kwargs) : Finish(kwargs, w, out)

\* The caller takes the returned frame (or catches the error)
TakeResult ==
  /\ ~Ready
  /\ call' = [op |-> "new"]
  /\ raised' = "none"
  /\ ret' = <<>>
  /\ passed' = <<>>
  /\ sorted' = <<>>
  /\ steps' = <<>>
  /\ UNCHANGED <<df, given>>

Init ==
  /\ df \in Datasets
  /\ given = df
  /\ call = [op |-> "new"]
  /\ raised = "none"
  /\ ret = <<>>
  /\ passed = <<>>
  /\ sorted = <<>>
  /\ steps = <<>>

Next ==
  \/ Call_get_spikes
  \/ Call_get_moving_average
  \/ Call_get_volatility
  \/ Call_get_monthly_analysis
  \/ TakeResult

Spec == Init /\ [][Next]_vars

----------------------------------------------------------------------------
(* Properties *)

Returned(op) == call.op = op /\ raised = "none"

\* the positions of D (the dataset handed to the constructor) that belong to
\* the pair the call names
PairRows == {i \in 1..Len(given) : /\ given[i].coin_name = call.coin_name
                                   /\ given[i].currency = call.currency}

RowOf(r) == r.index + 1

Min(a, b) == IF a < b THEN a ELSE b

\* C1: no operation mutates the caller's dataset: after every call, in any
\* sequence of calls and also when the call ended in an error, self.df has
\* the rows, columns and values of the dataset D it was constructed with
\* (date_key still an integer, no moving_avg_<column> column added).
C1_DatasetNotMutated == df = given

\* C1 witness: get_moving_average ran and returned rows carrying the new
\* column, while self.df holds rows of other pairs as well
C1_Witness ==
  /\ Returned("get_moving_average")
  /\ Len(ret) >= 2
  /\ Len(passed) < Len(df)
  /\ \A j \in 1..Len(ret) : "moving_avg_price" \in DOMAIN ret[j]

\* C2: pair isolation: the slice handed to the wrapped operation holds
\* exactly the rows of D whose coin_name and currency equal the call's, in
\* their order in D, so that selected plus non-matching rows are |D|; when no
\* row matches, the slice is empty and the operation returns an empty frame
\* (the one error an empty slice can end in is the rolling window's own
\* rejection of a negative total_day_span).
C2_PairIsolation ==
  (call.op # "new" /\ "body" \in {steps[i] : i \in 1..Len(steps)}) =>
    /\ \A j \in 1..Len(passed) :
         /\ RowOf(passed[j]) \in PairRows
         /\ passed[j] = given[RowOf(passed[j])]
    /\ \A j \in 1..Len(passed) : \A l \in 1..Len(passed) :
         j < l => passed[j].index < passed[l].index
    /\ \A i \in PairRows : \E j \in 1..Len(passed) : passed[j] = given[i]
    /\ Len(passed) + Cardinality((1..Len(given)) \ PairRows) = Len(given)
    /\ PairRows = {} =>
         /\ passed = <<>>
         /\ ret = <<>>
         /\ raised # "none" =>
              (call.op = "get_moving_average" /\ call.total_day_span < 0)

\* C2 witness: a call whose pair matches two of the three rows of D
C2_Witness ==
  /\ Returned("get_volatility")
  /\ Len(given) = 3
  /\ Len(passed) = 2
  /\ passed[1].index = 0
  /\ passed[2].index = 2

\* C3: a call of any of the four operations in which coin_name or currency
\* is absent or empty raises an error before the dataset is copied, filtered
\* or processed; the wrapped body does not run and nothing is returned.
C3_MissingSelectorRaises ==
  (/\ call.op # "new"
   /\ (call.coin_name \in {Absent, ""} \/ call.currency \in {Absent, ""})) =>
    /\ raised = "ValueError"
    /\ steps = <<"check">>
    /\ passed = <<>>
    /\ ret = <<>>
    /\ sorted = <<>>

\* C3 witness: get_monthly_analysis called with an empty coin_name on a
\* dataset with rows, and refused
C3_Witness ==
  /\ call.op = "get_monthly_analysis"
  /\ call.coin_name = ""
  /\ call.currency = TargetCurrency
  /\ raised = "ValueError"
  /\ Len(df) = MaxRows

\* the positions of D in the call's pair and date window
WindowRows ==
  {i \in PairRows : /\ call.start_date_key <= given[i].date_key
                    /\ given[i].date_key <= call.end_date_key}

\* a comes no later than b in the call's rank direction
Ranked(a, b) == IF call.order THEN a <= b ELSE a >= b

C5_TiesByAscendingDate ==
  Returned("get_spikes") =>
    \A j \in 1..Len(ret) : \A l \in 1..Len(ret) :
      (/\ j < l
       /\ ret[j][call.column] = ret[l][call.column]
       /\ ret[j].date_key # ret[l].date_key) => ret[j].date_key < ret[l].date_key

\* C6: invalid arguments are rejected before any computation: get_spikes
\* with start_date_key > end_date_key or a negative up_to_rank,
\* get_moving_average with total_day_span <= 0 and get_volatility with
\* lag_to_row <= 0 raise an error and return no frame.
C6_InvalidArgumentsRaise ==
  (/\ call.op # "new"
   /\ call.coin_name \notin {Absent, ""}
   /\ call.currency \notin {Absent, ""}
   /\ \/ call.op = "get_spikes"
           /\ (call.start_date_key > call.end_date_key \/ call.up_to_rank < 0)
      \/ call.op = "get_moving_average" /\ call.total_day_span <= 0
      \/ call.op = "get_volatility" /\ call.lag_to_row <= 0) =>
    /\ raised # "none"
    /\ ret = <<>>
    /\ sorted = <<>>

\* the row of ret that carries index label x, as a set (empty when dropped)
RetAt(x) == {j \in 1..Len(ret) : ret[j].index = x}

\* C7: volatility drop rules: get_volatility with lag L >= 1 never fails;
\* the row at sorted position i is absent from the result when i < L and
\* when the column value at position i - L is exactly zero; every other row
\* is present with <column>_growth = round((current - previous) / previous
\* * 100, 2); no row carries an infinite or undefined growth.
C7_VolatilityDropRules ==
  (/\ call.op = "get_volatility"
   /\ steps # <<"check">>
   /\ call.lag_to_row >= 1) =>
    /\ raised = "none"
    /\ \A p \in 1..Len(sorted) :
         LET L == call.lag_to_row
             name == call.column \o "_growth"
             at == RetAt(sorted[p].index)
         IN IF p - L < 1 \/ sorted[p - L][call.column] = 0
            THEN at = {}
            ELSE /\ Cardinality(at) = 1
                 /\ \A j \in at :
                      LET cur == sorted[p][call.column]
                          prev == sorted[p - L][call.column]
                      IN SameNumber(ret[j][name], Round2(Num((cur - prev) * 100, prev)))
    /\ \A j \in 1..Len(ret) : ret[j][call.column \o "_growth"].kind = "num"

\* the mean of the column over sorted positions lo..hi (0-based, inclusive)
WindowMean(lo, hi) ==
  Num(SumOf(sorted, call.column, lo + 1, hi + 1), hi - lo + 1)

\* the row at 0-based sorted position i is in the result exactly when
\* before <= i <= n - 1 - after, with the mean over i - before .. i + after
\* as its moving average
Aligned(before, after) ==
  \A i \in 0..(Len(sorted) - 1) :
    LET at == RetAt(sorted[i + 1].index)
    IN IF before <= i /\ i <= Len(sorted) - 1 - after
       THEN /\ Cardinality(at) = 1
            /\ \A j \in at :
                 SameNumber(ret[j]["moving_avg_" \o call.column],
                            WindowMean(i - before, i + after))
       ELSE at = {}

MovingAverageRan ==
  /\ Returned("get_moving_average")
  /\ call.total_day_span >= 1
  /\ Len(sorted) = Len(passed)
  /\ \A i \in 1..Len(sorted) : \A l \in 1..Len(sorted) :
       i < l => sorted[i].date_key <= sorted[l].date_key

\* C8 as stated: the window of get_moving_average with span w >= 1 reaches
\* floor((w-1)/2) rows before position i and ceil((w-1)/2) rows after, so
\* that an even w holds one more row after i than before it.
C8_WindowFloorBeforeCeilAfter ==
  (call.op = "get_moving_average" /\ steps # <<"check">> /\ call.total_day_span >= 1) =>
    /\ MovingAverageRan
    /\ Aligned((call.total_day_span - 1) \div 2, call.total_day_span \div 2)

\* C8 amended: the window of get_moving_average with span w >= 1 reaches
\* ceil((w-1)/2) rows before position i and floor((w-1)/2) rows after: the
\* row at sorted position i is in the result if and only if
\* ceil((w-1)/2) <= i <= n - 1 - floor((w-1)/2), and its moving average is
\* the mean of the column over sorted positions i - ceil((w-1)/2) through
\* i + floor((w-1)/2); an even w holds one more row before i than after it.
C8_WindowCeilBeforeFloorAfter ==
  (call.op = "get_moving_average" /\ steps # <<"check">> /\ call.total_day_span >= 1) =>
    /\ MovingAverageRan
    /\ Aligned(call.total_day_span \div 2, (call.total_day_span - 1) \div 2)

\* C8 witness: an even span over three rows given out of date order, with
\* two rows in the result
C8_Witness ==
  /\ Returned("get_moving_average")
  /\ call.total_day_span = 2
  /\ Len(passed) = 3
  /\ passed[1].date_key > passed[2].date_key
  /\ Len(ret) = 2
  /\ ret[1]["moving_avg_" \o call.column] # ret[2]["moving_avg_" \o call.column]

\* C9: moving average boundary count: get_moving_average with span w >= 1
\* on a pair slice of n rows returns exactly n - (w - 1) rows when n >= w
\* and 0 rows when n < w, whatever the order of the rows.
C9_BoundaryCount ==
  (call.op = "get_moving_average" /\ steps # <<"check">> /\ call.total_day_span >= 1) =>
    LET n == Cardinality(PairRows)
        w == call.total_day_span
    IN /\ raised = "none"
       /\ Len(ret) = IF n >= w THEN n - (w - 1) ELSE 0

\* C9 witness: span 3 over three rows given out of date order leaves one row
C9_Witness ==
  /\ Returned("get_moving_average")
  /\ call.total_day_span = 3
  /\ Cardinality(PairRows) = 3
  /\ passed[1].date_key > passed[3].date_key
  /\ Len(ret) = 1

\* the year_month_key of the row at position i of D
MonthOf(i) == YearMonthKey(Str(given[i].date_key))

\* C10: get_monthly_analysis returns one row per distinct year_month_key of
\* the pair slice (characters 1-4 of date_key, "-", characters 5-6), in
\* ascending year_month_key order, with the means of price, volume and
\* capitalization over the month's rows and the coin_name, currency and
\* date_key of the month's row with the smallest date_key, whatever the
\* order of the rows.
C10_MonthlyOrderIndependent ==
  (call.op = "get_monthly_analysis" /\ steps # <<"check">>) =>
    /\ raised = "none"
    /\ {ret[j].year_month_key : j \in 1..Len(ret)} = {MonthOf(i) : i \in PairRows}
    /\ \A j \in 1..Len(ret) : \A l \in 1..Len(ret) :
         j < l => StrLess(ret[j].year_month_key, ret[l].year_month_key)
    /\ \A j \in 1..Len(ret) :
         LET g == {i \in PairRows : MonthOf(i) = ret[j].year_month_key}
             first == CHOOSE i \in g : \A o \in g : given[i].date_key <= given[o].date_key
             total(column) ==
               LET RECURSIVE Add(_)
                   Add(S) == IF S = {} THEN 0
                             ELSE LET x == CHOOSE x \in S : TRUE
                                  IN given[x][column] + Add(S \ {x})
               IN Add(g)
         IN /\ SameNumber(ret[j].avg_price, Num(total("price"), Cardinality(g)))
            /\ SameNumber(ret[j].avg_volume, Num(total("volume"), Cardinality(g)))
            /\ SameNumber(ret[j].avg_capitalization,
                          Num(total("capitalization"), Cardinality(g)))
            /\ ret[j].coin_name = call.coin_name
            /\ ret[j].currency = call.currency
            /\ ret[j].date_key = Str(given[first].date_key)

====
